---- MODULE Spec2Model ----
(***************************************************************************)
(* Stored records of module/config/stored/classes.py: StoredBase and its   *)
(* subclasses, one config object holding the nested tree (`data`), the     *)
(* `modified` mapping and the `auto_update` flag.                          *)
(*                                                                         *)
(* Two record instances (r1, r2) are constructed with the same key.  A     *)
(* Python value is a record [t |-> type name, v |-> payload]; a datetime   *)
(* carries an instant counted in clock ticks (TicksPerSec ticks a second)  *)
(* from DEFAULT_TIME.  A dict is a function from attribute names to        *)
(* values.  `modified[key]` holds a reference to a record's dict, as in    *)
(* the code, so it is modelled as the name of the instance that owns it.   *)
(***************************************************************************)
EXTENDS Integers, Sequences, FiniteSets, TLC

VARIABLES
    cls,          \* the class of the records constructed with the key
    attrs,        \* self._attrs, cached: the order of the keys and the dict
    config,       \* self._config of each instance: "None" or "cfg"
    cached,       \* whether '_stored' is in the instance's __dict__
    stored,       \* the dict cached by StoredBase._stored, per instance
    own,          \* ordinary (non-schema) instance attributes, per instance
    data,         \* config.data at the key: [present, map]
    modified,     \* config.modified[key]: "none" or the instance whose dict it is
    auto_update,  \* config.auto_update
    scope,        \* multi_set(): nesting depth and the flag saved on entry
    warnings,     \* logger.warning calls, per instance and attribute
    clock,        \* wall clock, in ticks
    budget,       \* operations the run may still perform
    last,         \* the operation performed last and what it returned
    prev          \* the operation performed before it

vars == <<cls, attrs, config, cached, stored, own, data, modified, auto_update,
          scope, warnings, clock, budget, last, prev>>

----------------------------------------------------------------------------
(* Bounds of the model *)

TicksPerSec == 2
StartClock == 5
MaxSteps == 2
HydrateSteps == 1
MaxDepth == 1

(* Program constants *)

DefaultTime == 0
ActivityTotal == 500
QuestSlots == 6

Skew == 1
Minute == 60
Hour == 3600
Day == 86400
LongAgo == 129600

ResetHour == 4
Inst == {"r1", "r2"}

----------------------------------------------------------------------------
(* Python values *)

IntV(n) == [t |-> "int", v |-> n]
StrV(s) == [t |-> "str", v |-> s]
BoolV(b) == [t |-> "bool", v |-> b]
NoneV == [t |-> "NoneType", v |-> 0]
DT(n) == [t |-> "datetime", v |-> n]
DailyQuest(name) == [t |-> "DailyQuest", v |-> name]

EmptyDict == [a \in {} |-> NoneV]

\* Mutant: the stored value is never looked up
DictGet_default_only(d, k, default) == default

\* dict.get(key, default)
DictGet(d, k, default) == IF k \in DOMAIN d THEN d[k] ELSE default

\* d[k] = v on a dict: the key is added when it is new
DictSet(d, k, v) == [a \in DOMAIN d \cup {k} |-> IF a = k THEN v ELSE d[a]]

\* isinstance(value, cls): bool is a subclass of int
IsInstance(value, typ) ==
    \/ value.t = typ
    \/ value.t = "bool" /\ typ = "int"

\* bool(value), as `if not name` evaluates it
Truthy(value) ==
    CASE value.t = "str" -> value.v # ""
      [] value.t = "int" -> value.v # 0
      [] value.t = "bool" -> value.v
      [] value.t = "NoneType" -> FALSE
      [] OTHER -> TRUE

\* Mutant: the fraction of the second is kept
now_exact(clk) == DT(clk)

\* now(): datetime.now() with the microseconds dropped
now(clk) == DT((clk \div TicksPerSec) * TicksPerSec)

DEFAULT_TIME == DT(DefaultTime)

\* datetime.fromisoformat on a str: the instant, or ValueError
FromIsoFormat(s) ==
    CASE s = "2020-01-01T00:00:01" -> [ok |-> TRUE, value |-> DT(1 * TicksPerSec)]
      [] s = "2020-01-01T00:00:02" -> [ok |-> TRUE, value |-> DT(2 * TicksPerSec)]
      [] OTHER -> [ok |-> FALSE, value |-> NoneV]

----------------------------------------------------------------------------
(* Classes and their declared members *)

Classes == {"StoredInt", "StoredCounter", "StoredDailyActivity", "StoredDaily",
            "StoredDungeonDouble"}

Member(n, k, val) == [name |-> n, kind |-> k, value |-> val]

\* The members each class body declares
ClassBody(c) ==
    CASE c = "StoredBase" ->
           { Member("time", "value", DEFAULT_TIME),
             Member("__init__", "function", NoneV),
             Member("_name", "cached_property", NoneV),
             Member("_bind", "function", NoneV),
             Member("_stored", "cached_property", NoneV),
             Member("_attrs", "cached_property", NoneV),
             Member("__setattr__", "function", NoneV),
             Member("__getattribute__", "function", NoneV),
             Member("is_expired", "function", NoneV),
             Member("show", "function", NoneV),
             Member("dashboard", "function", NoneV),
             Member("readable_time", "function", NoneV) }
      [] c = "StoredExpiredAt0400" ->
           { Member("is_expired", "function", NoneV) }
      [] c = "StoredInt" ->
           { Member("value", "value", IntV(0)) }
      [] c = "StoredCounter" ->
           { Member("current", "value", IntV(0)),
             Member("total", "value", IntV(0)),
             Member("set", "function", NoneV),
             Member("to_counter", "function", NoneV),
             Member("is_full", "function", NoneV),
             Member("get_remain", "function", NoneV) }
      [] c = "StoredDailyActivity" ->
           { Member("set", "function", NoneV),
             Member("_stored", "property", NoneV) }
      [] c = "StoredDaily" ->
           { Member("quest1", "value", StrV("")),
             Member("quest2", "value", StrV("")),
             Member("quest3", "value", StrV("")),
             Member("quest4", "value", StrV("")),
             Member("quest5", "value", StrV("")),
             Member("quest6", "value", StrV("")),
             Member("load_quests", "function", NoneV),
             Member("write_quests", "function", NoneV) }
      [] c = "StoredDungeonDouble" ->
           { Member("calyx", "value", IntV(0)),
             Member("relic", "value", IntV(0)) }
      [] OTHER -> {}

\* Method resolution order
Mro(c) ==
    CASE c = "StoredInt" -> <<"StoredInt", "StoredBase">>
      [] c = "StoredCounter" -> <<"StoredCounter", "StoredBase">>
      [] c = "StoredDailyActivity" ->
           <<"StoredDailyActivity", "StoredCounter", "StoredExpiredAt0400", "StoredBase">>
      [] c = "StoredDaily" -> <<"StoredDaily", "StoredExpiredAt0400", "StoredBase">>
      [] c = "StoredDungeonDouble" ->
           <<"StoredDungeonDouble", "StoredExpiredAt0400", "StoredBase">>
      [] c = "StoredExpiredAt0400" -> <<"StoredExpiredAt0400", "StoredBase">>
      [] OTHER -> <<"StoredBase">>

\* The names of the members, in the sorted order dir() lists them
SortedNames ==
    << "__getattribute__", "__init__", "__setattr__", "_attrs", "_bind", "_name",
       "_stored", "calyx", "current", "dashboard", "get_remain", "is_expired",
       "is_full", "load_quests", "quest1", "quest2", "quest3", "quest4", "quest5",
       "quest6", "readable_time", "relic", "set", "show", "time", "to_counter",
       "total", "value", "write_quests" >>

\* attr.startswith('_')
StartsWithUnderscore(name) ==
    name \in { "__getattribute__", "__init__", "__setattr__", "_attrs", "_bind",
               "_name", "_stored", "_key", "_config" }

Declares(c, name) == \E m \in ClassBody(c) : m.name = name

\* dir(cls)
Dir(c) ==
    SelectSeq(SortedNames, LAMBDA n : \E k \in 1..Len(Mro(c)) : Declares(Mro(c)[k], n))

\* getattr(cls, name): the first class of the MRO that declares it wins
ClassGetAttr(c, name) ==
    LET k == CHOOSE j \in 1..Len(Mro(c)) :
                 /\ Declares(Mro(c)[j], name)
                 /\ \A h \in 1..(j - 1) : ~Declares(Mro(c)[h], name)
    IN CHOOSE m \in ClassBody(Mro(c)[k]) : m.name = name

\* The class whose body provides `name` to instances of c
Owner(c, name) ==
    Mro(c)[CHOOSE j \in 1..Len(Mro(c)) :
               /\ Declares(Mro(c)[j], name)
               /\ \A h \in 1..(j - 1) : ~Declares(Mro(c)[h], name)]

\* iter_attribute(cls): the (name, value) pairs of the public stored members
iter_attribute(c) ==
    LET keep(n) == /\ ~StartsWithUnderscore(n)
                   /\ ClassGetAttr(c, n).kind \notin {"function", "property"}
        names == SelectSeq(Dir(c), keep)
    IN [k \in 1..Len(names) |-> <<names[k], ClassGetAttr(c, names[k]).value>>]

RECURSIVE AttrsFrom(_, _, _)
\* The loop of StoredBase._attrs over iter_attribute: (order of keys, dict)
AttrsFrom(pairs, order, dict) ==
    IF pairs = <<>> THEN [order |-> order, dict |-> dict]
    ELSE LET name == Head(pairs)[1]
             value == Head(pairs)[2]
         IN AttrsFrom(Tail(pairs),
                      IF name \in DOMAIN dict THEN order ELSE Append(order, name),
                      DictSet(dict, name, value))

\* StoredBase._attrs: 'time' first, then the class's members
Attrs(c) == AttrsFrom(iter_attribute(c), <<"time">>, [a \in {"time"} |-> DEFAULT_TIME])

AttrNames(c) == DOMAIN Attrs(c).dict

----------------------------------------------------------------------------
(* The config object (module.config, outside this file) *)

\* Sequencing: `first` is evaluated once and handed to the statements after it
Then(first, Rest(_)) == CHOOSE r \in { Rest(x) : x \in {first} } : TRUE

\* config.modified[key], as update() reads it
ModifiedValue(m) ==
    IF m.modified = "none" THEN [present |-> FALSE, map |-> EmptyDict]
    ELSE [present |-> TRUE, map |-> m.stored[m.modified]]

\* deep_get(config.data, keys=key, default={})
deep_get(m) == IF m.data.present THEN m.data.map ELSE EmptyDict

\* config.update(): persists the modified keys into the tree.  `flushed`
\* records what each call of the running operation found in modified[key].
update(m) ==
    [m EXCEPT !.flushed = Append(@, ModifiedValue(m)),
              !.data = IF m.modified = "none" THEN @ ELSE ModifiedValue(m)]

\* config.multi_set().__enter__: sets stop flushing
multi_set_enter(m) ==
    [m EXCEPT !.scope = [depth |-> @.depth + 1,
                         saved |-> IF @.depth = 0 THEN m.auto_update ELSE @.saved],
              !.auto_update = FALSE]

\* config.multi_set().__exit__: the outermost exit flushes once
multi_set_exit(m) ==
    IF m.scope.depth = 1
    THEN Then([m EXCEPT !.scope = [depth |-> 0, saved |-> FALSE],
                        !.auto_update = m.scope.saved],
              LAMBDA out : update(out))
    ELSE [m EXCEPT !.scope.depth = @ - 1]

\* get_server_last_update('04:00'): the most recent 04:00 not after now
get_server_last_update(clk) ==
    DT(((clk - ResetHour * Hour * TicksPerSec) \div (Day * TicksPerSec))
           * (Day * TicksPerSec) + ResetHour * Hour * TicksPerSec)

\* DailyQuest.find(name): the quest, or ScriptError
KnownQuests == {"Quest_A", "Quest_B"}

DailyQuest_find(name) ==
    IF name.t = "str" /\ name.v \in KnownQuests
    THEN [ok |-> TRUE, value |-> DailyQuest(name.v)]
    ELSE [ok |-> FALSE, value |-> NoneV]

----------------------------------------------------------------------------
(* StoredBase *)

Raise(m, e) == [m EXCEPT !.exc = e]

\* Mutant: the assertion is dropped
AssertBound_dropped(m, i) == TRUE

\* `assert self._config is not None`
AssertBound(m, i) == m.config[i] # "None"

\* Mutant: the stored value is taken as it is, whatever its type
ValidateAttr_unchecked(attr, value, default) ==
    [value |-> value, warn |-> FALSE, exc |-> "none"]

\* The body of the loop of StoredBase._stored for one attribute
ValidateAttr(attr, value, default) ==
    IF attr = "time"
    THEN IF IsInstance(value, "datetime")
         THEN [value |-> value, warn |-> FALSE, exc |-> "none"]
         ELSE IF value.t # "str"
              THEN [value |-> value, warn |-> FALSE, exc |-> "TypeError"]
              ELSE IF FromIsoFormat(value.v).ok
                   THEN [value |-> FromIsoFormat(value.v).value, warn |-> FALSE,
                         exc |-> "none"]
                   ELSE [value |-> default, warn |-> TRUE, exc |-> "none"]
    ELSE IF ~IsInstance(value, default.t)
         THEN [value |-> default, warn |-> TRUE, exc |-> "none"]
         ELSE [value |-> value, warn |-> FALSE, exc |-> "none"]

RECURSIVE HydrateLoop(_, _, _, _, _)
\* `for attr, default in self._attrs.items()`: (out, warnings, exception)
HydrateLoop(order, defaults, raw, out, warns) ==
    IF order = <<>> THEN [out |-> out, warns |-> warns, exc |-> "none"]
    ELSE LET attr == Head(order)
             default == defaults[attr]
             r == ValidateAttr(attr, DictGet(raw, attr, default), default)
             w == IF r.warn THEN [warns EXCEPT ![attr] = @ + 1] ELSE warns
         IN IF r.exc # "none" THEN [out |-> out, warns |-> w, exc |-> r.exc]
            ELSE HydrateLoop(Tail(order), defaults, raw, DictSet(out, attr, r.value), w)

\* Mutant: the snapshot is computed again on every access
StoredBase_stored_fresh(m, c, i) ==
    IF ~AssertBound(m, i) THEN Raise(m, "AssertionError")
    ELSE Then(HydrateLoop(m.attrs.order, m.attrs.dict, deep_get(m),
                          EmptyDict, m.warnings[i]),
              LAMBDA h :
                IF h.exc # "none"
                THEN [m EXCEPT !.warnings[i] = h.warns, !.exc = h.exc]
                ELSE [m EXCEPT !.warnings[i] = h.warns, !.stored[i] = h.out,
                               !.cached[i] = TRUE])

\* StoredBase._stored (functools.cached_property): computed on the first
\* access that succeeds, then kept in the instance's __dict__
StoredBase_stored(m, c, i) ==
    IF m.cached[i] THEN m
    ELSE IF ~AssertBound(m, i) THEN Raise(m, "AssertionError")
    ELSE Then(HydrateLoop(m.attrs.order, m.attrs.dict, deep_get(m),
                          EmptyDict, m.warnings[i]),
              LAMBDA h :
                IF h.exc # "none"
                THEN [m EXCEPT !.warnings[i] = h.warns, !.exc = h.exc]
                ELSE [m EXCEPT !.warnings[i] = h.warns, !.stored[i] = h.out,
                               !.cached[i] = TRUE])

\* Mutant: 'total' is not pinned
StoredDailyActivity_stored_unpinned(m, c, i) == StoredBase_stored(m, c, i)

\* StoredDailyActivity._stored (property): pins 'total' on every access
StoredDailyActivity_stored(m, c, i) ==
    Then(StoredBase_stored(m, c, i),
         LAMBDA s :
           IF s.exc # "none" THEN s
           ELSE [s EXCEPT !.stored[i] = DictSet(@, "total", IntV(ActivityTotal))])

\* self._stored, resolved through the class of the instance
Stored(m, c, i) ==
    IF c = "StoredDailyActivity" THEN StoredDailyActivity_stored(m, c, i)
    ELSE StoredBase_stored(m, c, i)

\* StoredBase._bind
StoredBase_bind(m, i) == [m EXCEPT !.config[i] = "cfg"]

\* Mutant: the time is stamped after the value is written
StoredBase_setattr_stamp_last(m, c, i, key, value) ==
    IF key \in DOMAIN m.attrs.dict
    THEN Then(Stored(m, c, i),
              LAMBDA s :
                IF s.exc # "none" THEN s
                ELSE Then([s EXCEPT !.stored[i] =
                                        DictSet(DictSet(@, key, value),
                                                "time", now(s.clock)),
                                    !.modified = i],
                          LAMBDA w : IF w.auto_update THEN update(w) ELSE w))
    ELSE [m EXCEPT !.own[i] = DictSet(@, key, value)]

\* Mutant: only the changed field is registered, in a dict of its own
StoredBase_setattr_delta(m, c, i, key, value) ==
    IF key \in DOMAIN m.attrs.dict
    THEN Then(Stored(m, c, i),
              LAMBDA s :
                IF s.exc # "none" THEN s
                ELSE Then([s EXCEPT !.stored[i] =
                                        DictSet(DictSet(EmptyDict, "time", now(s.clock)),
                                                key, value),
                                    !.modified = i],
                          LAMBDA w : IF w.auto_update THEN update(w) ELSE w))
    ELSE [m EXCEPT !.own[i] = DictSet(@, key, value)]

\* Mutant: the flush is requested before the snapshot is registered
StoredBase_setattr_flush_first(m, c, i, key, value) ==
    IF key \in DOMAIN m.attrs.dict
    THEN Then(Stored(m, c, i),
              LAMBDA s :
                IF s.exc # "none" THEN s
                ELSE Then(IF s.auto_update THEN update(s) ELSE s,
                          LAMBDA w :
                            [w EXCEPT !.stored[i] =
                                          DictSet(DictSet(@, "time", now(w.clock)),
                                                  key, value),
                                      !.modified = i]))
    ELSE [m EXCEPT !.own[i] = DictSet(@, key, value)]

\* Mutant: the change is merged into the snapshot pending in modified[key]
StoredBase_setattr_merge(m, c, i, key, value) ==
    IF key \in DOMAIN m.attrs.dict
    THEN Then(Stored(m, c, i),
              LAMBDA s :
                IF s.exc # "none" THEN s
                ELSE Then([s EXCEPT !.stored[i] =
                                        DictSet(DictSet(IF s.modified = "none" THEN @
                                                        ELSE s.stored[s.modified],
                                                        "time", now(s.clock)),
                                                key, value),
                                    !.modified = i],
                          LAMBDA w : IF w.auto_update THEN update(w) ELSE w))
    ELSE [m EXCEPT !.own[i] = DictSet(@, key, value)]

\* Mutant: the time is not stamped
StoredBase_setattr_unstamped(m, c, i, key, value) ==
    IF key \in DOMAIN m.attrs.dict
    THEN Then(Stored(m, c, i),
              LAMBDA s :
                IF s.exc # "none" THEN s
                ELSE Then([s EXCEPT !.stored[i] = DictSet(@, key, value),
                                    !.modified = i],
                          LAMBDA w : IF w.auto_update THEN update(w) ELSE w))
    ELSE [m EXCEPT !.own[i] = DictSet(@, key, value)]

\* StoredBase.__setattr__
StoredBase_setattr(m, c, i, key, value) ==
    IF key \in DOMAIN m.attrs.dict
    THEN Then(Stored(m, c, i),
              LAMBDA s :
                IF s.exc # "none" THEN s
                ELSE Then([s EXCEPT !.stored[i] =
                                        DictSet(DictSet(@, "time", now(s.clock)),
                                                key, value),
                                    !.modified = i],
                          LAMBDA w : IF w.auto_update THEN update(w) ELSE w))
    ELSE [m EXCEPT !.own[i] = DictSet(@, key, value)]

\* Mutant: a read stamps the time and registers the snapshot
StoredBase_getattribute_touch(m, c, i, item) ==
    IF ~StartsWithUnderscore(item) /\ item \in DOMAIN m.attrs.dict
    THEN Then(Stored(m, c, i),
              LAMBDA s :
                IF s.exc # "none" THEN s
                ELSE [s EXCEPT !.ret = s.stored[i][item],
                               !.stored[i] = DictSet(@, "time", now(s.clock)),
                               !.modified = i])
    ELSE IF item \in DOMAIN m.own[i] THEN [m EXCEPT !.ret = m.own[i][item]]
         ELSE Raise(m, "AttributeError")

\* StoredBase.__getattribute__
StoredBase_getattribute(m, c, i, item) ==
    IF ~StartsWithUnderscore(item) /\ item \in DOMAIN m.attrs.dict
    THEN Then(Stored(m, c, i),
              LAMBDA s :
                IF s.exc # "none" THEN s ELSE [s EXCEPT !.ret = s.stored[i][item]])
    ELSE IF item \in DOMAIN m.own[i] THEN [m EXCEPT !.ret = m.own[i][item]]
         ELSE Raise(m, "AttributeError")

\* StoredBase.is_expired
StoredBase_is_expired(m, c, i) == [m EXCEPT !.ret = BoolV(FALSE)]

\* StoredBase.show: logs self._stored
StoredBase_show(m, c, i) ==
    Then(Stored(m, c, i), LAMBDA s : IF s.exc # "none" THEN s ELSE [s EXCEPT !.ret = NoneV])

\* StoredBase.dashboard
StoredBase_dashboard(m, c, i) == [m EXCEPT !.ret = StrV("None")]

\* Mutant: a record stamped exactly at the boundary counts as expired
StoredExpiredAt0400_is_expired_inclusive(m, c, i) ==
    Then(StoredBase_show(m, c, i), LAMBDA s :
         IF s.exc # "none" THEN s
         ELSE Then(StoredBase_getattribute(s, c, i, "time"), LAMBDA g :
              IF g.exc # "none" THEN g
              ELSE IF g.ret.t # "datetime" THEN Raise(g, "TypeError")
              ELSE [g EXCEPT !.ret = BoolV(g.ret.v <= get_server_last_update(g.clock).v)]))

\* StoredExpiredAt0400.is_expired: show(), then self.time < the boundary
StoredExpiredAt0400_is_expired(m, c, i) ==
    Then(StoredBase_show(m, c, i), LAMBDA s :
         IF s.exc # "none" THEN s
         ELSE Then(StoredBase_getattribute(s, c, i, "time"), LAMBDA g :
              IF g.exc # "none" THEN g
              ELSE IF g.ret.t # "datetime" THEN Raise(g, "TypeError")
              ELSE [g EXCEPT !.ret = BoolV(g.ret.v < get_server_last_update(g.clock).v)]))

\* record.is_expired(), resolved through the class of the instance
is_expired(m, c, i) ==
    IF Owner(c, "is_expired") = "StoredExpiredAt0400"
    THEN StoredExpiredAt0400_is_expired(m, c, i)
    ELSE StoredBase_is_expired(m, c, i)

\* A (magnitude, bucket) pair as readable_time returns it
Pair(magnitude, bucket) == [t |-> "tuple", v |-> <<StrV(magnitude), StrV(bucket)>>]

\* Mutant: the thresholds are inclusive
TimeBucket_inclusive(diff) ==
    IF diff <= -Skew * TicksPerSec THEN Pair("", "TimeError")
    ELSE IF diff <= Minute * TicksPerSec THEN Pair("", "JustNow")
    ELSE IF diff <= Hour * TicksPerSec
         THEN Pair(ToString(diff \div (Minute * TicksPerSec)), "MinutesAgo")
    ELSE IF diff <= Day * TicksPerSec
         THEN Pair(ToString(diff \div (Day * TicksPerSec)), "HoursAgo")
    ELSE IF diff <= LongAgo * TicksPerSec
         THEN Pair(ToString(diff \div (LongAgo * TicksPerSec)), "DaysAgo")
    ELSE Pair("", "LongTimeAgo")

\* The if/elif chain of readable_time; diff is counted in ticks
TimeBucket(diff) ==
    IF diff < -Skew * TicksPerSec THEN Pair("", "TimeError")
    ELSE IF diff < Minute * TicksPerSec THEN Pair("", "JustNow")
    ELSE IF diff < Hour * TicksPerSec
         THEN Pair(ToString(diff \div (Minute * TicksPerSec)), "MinutesAgo")
    ELSE IF diff < Day * TicksPerSec
         THEN Pair(ToString(diff \div (Day * TicksPerSec)), "HoursAgo")
    ELSE IF diff < LongAgo * TicksPerSec
         THEN Pair(ToString(diff \div (LongAgo * TicksPerSec)), "DaysAgo")
    ELSE Pair("", "LongTimeAgo")

\* StoredBase.readable_time: diff = self.time.timestamp() - time.time()
StoredBase_readable_time(m, c, i) ==
    Then(StoredBase_getattribute(m, c, i, "time"),
         LAMBDA g :
           IF g.exc # "none" THEN g
           ELSE IF g.ret.t # "datetime" THEN Raise(g, "AttributeError")
           ELSE [g EXCEPT !.ret = TimeBucket(g.ret.v - g.clock)])

----------------------------------------------------------------------------
(* StoredCounter, StoredDailyActivity, StoredDaily *)

\* Mutant: the two writes are made outside any multi_set() scope
StoredCounter_set_unbatched(m, c, i, current, total) ==
    IF m.config[i] = "None" THEN Raise(m, "AttributeError")
    ELSE Then(StoredBase_setattr(m, c, i, "current", current), LAMBDA a :
         IF a.exc # "none" THEN a
         ELSE StoredBase_setattr(a, c, i, "total", total))

\* StoredCounter.set: both writes inside one multi_set() scope
StoredCounter_set(m, c, i, current, total) ==
    IF m.config[i] = "None" THEN Raise(m, "AttributeError")
    ELSE Then(multi_set_enter(m), LAMBDA e :
         Then(StoredBase_setattr(e, c, i, "current", current), LAMBDA a :
         Then(IF a.exc # "none" THEN a
              ELSE StoredBase_setattr(a, c, i, "total", total), LAMBDA b :
         multi_set_exit(b))))

\* The number an int or a bool stands for
NumOf(x) == IF x.t = "bool" THEN (IF x.v THEN 1 ELSE 0) ELSE x.v

\* str(x), as an f-string formats it
PyStr(x) ==
    CASE x.t = "int" -> ToString(x.v)
      [] x.t = "str" -> x.v
      [] x.t = "bool" -> IF x.v THEN "True" ELSE "False"
      [] x.t = "NoneType" -> "None"
      [] OTHER -> "<object>"

\* StoredCounter.to_counter
StoredCounter_to_counter(m, c, i) ==
    Then(StoredBase_getattribute(m, c, i, "current"), LAMBDA a :
         IF a.exc # "none" THEN a
         ELSE Then(StoredBase_getattribute(a, c, i, "total"), LAMBDA b :
              IF b.exc # "none" THEN b
              ELSE [b EXCEPT !.ret = StrV(PyStr(a.ret) \o "/" \o PyStr(b.ret))]))

\* StoredCounter.is_full (numbers compare; a str against a number raises)
StoredCounter_is_full(m, c, i) ==
    Then(StoredBase_getattribute(m, c, i, "current"), LAMBDA a :
         IF a.exc # "none" THEN a
         ELSE Then(StoredBase_getattribute(a, c, i, "total"), LAMBDA b :
              IF b.exc # "none" THEN b
              ELSE IF ~(IsInstance(a.ret, "int") /\ IsInstance(b.ret, "int"))
                   THEN Raise(b, "TypeError")
              ELSE [b EXCEPT !.ret = BoolV(NumOf(a.ret) >= NumOf(b.ret))]))

\* StoredCounter.get_remain
StoredCounter_get_remain(m, c, i) ==
    Then(StoredBase_getattribute(m, c, i, "total"), LAMBDA b :
         IF b.exc # "none" THEN b
         ELSE Then(StoredBase_getattribute(b, c, i, "current"), LAMBDA a :
              IF a.exc # "none" THEN a
              ELSE IF ~(IsInstance(a.ret, "int") /\ IsInstance(b.ret, "int"))
                   THEN Raise(a, "TypeError")
              ELSE [a EXCEPT !.ret = IntV(NumOf(b.ret) - NumOf(a.ret))]))

\* StoredDailyActivity.set
StoredDailyActivity_set(m, c, i, current) ==
    StoredCounter_set(m, c, i, current, IntV(ActivityTotal))

QuestAttrs == <<"quest1", "quest2", "quest3", "quest4", "quest5", "quest6">>

\* Mutant: a DailyQuest object is written as it is
QuestName_raw(q) == q

\* `q.name if isinstance(q, DailyQuest) else q`
QuestName(q) == IF IsInstance(q, "DailyQuest") THEN StrV(q.v) ELSE q

RECURSIVE WriteSlots_keep(_, _, _, _, _)
\* Mutant: on IndexError the slot is left as it was
WriteSlots_keep(m, c, i, names, k) ==
    IF k > Len(QuestAttrs) \/ m.exc # "none" THEN m
    ELSE IF k > Len(names) THEN WriteSlots_keep(m, c, i, names, k + 1)
    ELSE Then(StoredBase_setattr(m, c, i, QuestAttrs[k], names[k]),
              LAMBDA w : WriteSlots_keep(w, c, i, names, k + 1))

RECURSIVE WriteSlots(_, _, _, _, _)
\* The six assignments of write_quests, slot k onwards: quests[k - 1], or ''
\* on IndexError
WriteSlots(m, c, i, names, k) ==
    IF k > Len(QuestAttrs) \/ m.exc # "none" THEN m
    ELSE Then(StoredBase_setattr(m, c, i, QuestAttrs[k],
                                 IF k <= Len(names) THEN names[k] ELSE StrV("")),
              LAMBDA w : WriteSlots(w, c, i, names, k + 1))

\* StoredDaily.write_quests
StoredDaily_write_quests(m, c, i, quests) ==
    IF m.config[i] = "None" THEN Raise(m, "AttributeError")
    ELSE LET names == [k \in 1..Len(quests) |-> QuestName(quests[k])]
         IN Then(multi_set_enter(m), LAMBDA e :
            Then(WriteSlots(e, c, i, names, 1), LAMBDA w :
            multi_set_exit(w)))

RECURSIVE LoadSlots_stop(_, _, _, _, _)
\* Mutant: the loop ends at the first empty slot
LoadSlots_stop(m, c, i, k, quests) ==
    IF k > Len(QuestAttrs) THEN [m EXCEPT !.ret = [t |-> "list", v |-> quests]]
    ELSE Then(StoredBase_getattribute(m, c, i, QuestAttrs[k]),
              LAMBDA g :
                IF g.exc # "none" THEN g
                ELSE IF ~Truthy(g.ret) THEN [g EXCEPT !.ret = [t |-> "list", v |-> quests]]
                ELSE IF DailyQuest_find(g.ret).ok
                     THEN LoadSlots_stop(g, c, i, k + 1,
                                         Append(quests, DailyQuest_find(g.ret).value))
                     ELSE LoadSlots_stop(g, c, i, k + 1, quests))

RECURSIVE LoadSlots(_, _, _, _, _)
\* The loop of load_quests, slot k onwards, `quests` collected so far
LoadSlots(m, c, i, k, quests) ==
    IF k > Len(QuestAttrs) THEN [m EXCEPT !.ret = [t |-> "list", v |-> quests]]
    ELSE Then(StoredBase_getattribute(m, c, i, QuestAttrs[k]),
              LAMBDA g :
                IF g.exc # "none" THEN g
                ELSE IF ~Truthy(g.ret) THEN LoadSlots(g, c, i, k + 1, quests)
                ELSE IF DailyQuest_find(g.ret).ok
                     THEN LoadSlots(g, c, i, k + 1,
                                    Append(quests, DailyQuest_find(g.ret).value))
                     ELSE LoadSlots(g, c, i, k + 1, quests))

\* StoredDaily.load_quests
StoredDaily_load_quests(m, c, i) == LoadSlots(m, c, i, 1, <<>>)

----------------------------------------------------------------------------
(* Inputs *)

\* What the tree may hold for an attribute whose default has type `typ`
RawValues(typ) ==
    CASE typ = "datetime" ->
           { DT(2 * TicksPerSec), StrV("2020-01-01T00:00:02"), StrV("yesterday"),
             IntV(7), NoneV }
      [] typ = "int" -> { IntV(9), StrV("7"), BoolV(TRUE), NoneV, DT(1 * TicksPerSec) }
      [] OTHER -> { StrV("Unknown"), StrV(""), IntV(7), NoneV }

\* A well-formed entry of the tree
GoodTree(c) ==
    [a \in AttrNames(c) |->
        CASE Attrs(c).dict[a].t = "datetime" -> DT(1 * TicksPerSec)
          [] Attrs(c).dict[a].t = "int" -> IntV(7)
          [] OTHER -> IF a \in {"quest1", "quest3", "quest5"} THEN StrV("Quest_A")
                      ELSE StrV("Quest_B")]

Without(d, k) == [a \in DOMAIN d \ {k} |-> d[a]]

\* A sparse entry: some attributes missing, some of the wrong type, a quest
\* name that does not resolve
SparseTree ==
    [a \in {"quest2", "quest4", "total"} |->
        IF a = "quest4" THEN StrV("Unknown") ELSE IntV(3)]

Absent == [present |-> FALSE, map |-> EmptyDict]

Present(tree) == [present |-> TRUE, map |-> tree]

\* The entries explored MaxSteps operations deep
DeepEntries(c) == { Absent, Present(GoodTree(c)), Present(SparseTree) }

\* The entries explored HydrateSteps operations deep: a well-formed entry with
\* one attribute replaced or missing, with a foreign key, an empty one
WideEntries(c) ==
    { Present(DictSet(GoodTree(c), "junk", IntV(1))), Present(EmptyDict) }
    \cup UNION { { Present(DictSet(GoodTree(c), a, r)) :
                      r \in RawValues(Attrs(c).dict[a].t) } : a \in AttrNames(c) }
    \cup { Present(Without(GoodTree(c), a)) : a \in AttrNames(c) }

\* The values a caller assigns to an attribute
SetValues(default) ==
    CASE default.t = "datetime" -> { DT(3 * TicksPerSec), StrV("soon") }
      [] default.t = "int" -> { IntV(1), StrV("full") }
      [] OTHER -> { StrV("Quest_B"), IntV(2) }

\* A list of n quests: DailyQuest objects and plain names alternate
QuestList(n) ==
    [k \in 1..n |-> IF k % 2 = 1 THEN DailyQuest("Quest_A") ELSE StrV("Quest_B")]

MaxQuests == 7

QuestLists ==
    { QuestList(n) : n \in 0..MaxQuests }
    \cup { <<StrV("Quest_B"), StrV("Unknown"), StrV("Quest_A")>> }

----------------------------------------------------------------------------
(* The state machine *)

\* The state an operation starts from
Cur ==
    [attrs |-> attrs, config |-> config, cached |-> cached, stored |-> stored, own |-> own,
     data |-> data, modified |-> modified, auto_update |-> auto_update,
     scope |-> scope, warnings |-> warnings, clock |-> clock,
     exc |-> "none", ret |-> NoneV, flushed |-> <<>>]

\* The state an operation leaves, and the record of the call
Commit(after, op, i, attr, arg) ==
    \E m \in {after} :
        /\ config' = m.config
        /\ cached' = m.cached
        /\ stored' = m.stored
        /\ own' = m.own
        /\ data' = m.data
        /\ modified' = m.modified
        /\ auto_update' = m.auto_update
        /\ scope' = m.scope
        /\ warnings' = m.warnings
        /\ clock' = m.clock
        /\ budget' = budget - 1
        /\ last' = [op |-> op, inst |-> i, attr |-> attr, arg |-> arg,
                    ret |-> IF m.exc = "none" THEN m.ret ELSE NoneV,
                    exc |-> m.exc, flushed |-> m.flushed, at |-> clock]
        /\ prev' = last
        /\ UNCHANGED <<cls, attrs>>

CanStep == budget > 0

NoCall == [op |-> "new", inst |-> "r1", attr |-> "", arg |-> NoneV,
           ret |-> NoneV, exc |-> "none", flushed |-> <<>>, at |-> 0]

\* StoredBase.__init__ for both instances, and the config as it was loaded
Init ==
    /\ cls \in Classes
    /\ attrs = Attrs(cls)
    /\ config = [i \in Inst |-> "None"]
    /\ cached = [i \in Inst |-> FALSE]
    /\ stored = [i \in Inst |-> EmptyDict]
    /\ own = [i \in Inst |-> EmptyDict]
    /\ data \in DeepEntries(cls) \cup WideEntries(cls)
    /\ budget = IF data \in DeepEntries(cls) THEN MaxSteps ELSE HydrateSteps
    /\ modified = "none"
    /\ auto_update \in BOOLEAN
    /\ scope = [depth |-> 0, saved |-> FALSE]
    /\ warnings = [i \in Inst |-> [a \in DOMAIN attrs.dict |-> 0]]
    /\ clock = StartClock
    /\ last = NoCall
    /\ prev = NoCall

\* record._bind(config)
Bind(i) ==
    /\ config[i] = "None"
    /\ config' = StoredBase_bind(Cur, i).config
    /\ UNCHANGED <<cls, attrs, cached, stored, own, data, modified, auto_update,
                   scope, warnings, clock, budget, last, prev>>

\* record.<attr>
Get(i, a) ==
    /\ CanStep
    /\ Commit(StoredBase_getattribute(Cur, cls, i, a), "get", i, a, NoneV)

\* record.<attr> = v
Set(i, a, v) ==
    /\ CanStep
    /\ Commit(StoredBase_setattr(Cur, cls, i, a, v), "set", i, a, v)

\* counter.set(current, total)
CounterSet(i, current, total) ==
    /\ CanStep
    /\ cls = "StoredCounter"
    /\ Commit(StoredCounter_set(Cur, cls, i, current, total), "StoredCounter.set", i, "",
              [t |-> "tuple", v |-> <<current, total>>])

\* activity.set(current)
ActivitySet(i, current) ==
    /\ CanStep
    /\ cls = "StoredDailyActivity"
    /\ Commit(StoredDailyActivity_set(Cur, cls, i, current), "StoredDailyActivity.set",
              i, "", [t |-> "tuple", v |-> <<current>>])

\* daily.write_quests(quests)
WriteQuests(i, quests) ==
    /\ CanStep
    /\ cls = "StoredDaily"
    /\ Commit(StoredDaily_write_quests(Cur, cls, i, quests), "write_quests", i, "",
              [t |-> "list", v |-> quests])

\* daily.load_quests()
LoadQuests(i) ==
    /\ CanStep
    /\ cls = "StoredDaily"
    /\ Commit(StoredDaily_load_quests(Cur, cls, i), "load_quests", i, "", NoneV)

\* The caller opens its own `with config.multi_set():` block
EnterScope ==
    /\ CanStep
    /\ scope.depth < MaxDepth
    /\ Commit(multi_set_enter(Cur), "multi_set.enter", "r1", "", NoneV)

\* ... and leaves it
ExitScope ==
    /\ CanStep
    /\ scope.depth > 0
    /\ Commit(multi_set_exit(Cur), "multi_set.exit", "r1", "", NoneV)

\* Time passes
Tick ==
    /\ CanStep
    /\ clock' = clock + 1
    /\ budget' = budget - 1
    /\ UNCHANGED <<cls, attrs, config, cached, stored, own, data, modified, auto_update,
                   scope, warnings, last, prev>>

\* The operations of the instances in `actors`
Ops(actors) ==
    \/ \E i \in actors : Bind(i)
    \/ \E i \in actors, a \in DOMAIN attrs.dict \cup {"note"} : Get(i, a)
    \/ \E i \in actors, a \in DOMAIN attrs.dict : \E v \in SetValues(attrs.dict[a]) : Set(i, a, v)
    \/ \E i \in actors : Set(i, "note", StrV("memo"))
    \/ \E i \in actors, cur \in {IntV(2), IntV(4)} : CounterSet(i, cur, IntV(3))
    \/ \E i \in actors, cur \in {IntV(2), IntV(4)} : ActivitySet(i, cur)
    \/ \E i \in actors, q \in QuestLists : WriteQuests(i, q)
    \/ \E i \in actors : LoadQuests(i)
    \/ EnterScope
    \/ ExitScope
    \/ Tick

Next == Ops({"r1"})

Spec == Init /\ [][Next]_vars

----------------------------------------------------------------------------
(* readable_time on stored times around its thresholds *)

EdgeSpread == 3

\* Stored time minus now, in ticks: around every threshold, and inside buckets
EdgeDiffs ==
    { b * TicksPerSec + d : b \in {-Skew, 0, Minute, Hour, Day, LongAgo},
                            d \in -EdgeSpread..EdgeSpread }
    \cup { b * TicksPerSec : b \in {-Hour, 2 * Minute + 5, 2 * Hour, Day + Hour,
                                     2 * LongAgo} }

\* A well-formed entry whose `time` is `diff` ticks after the clock
TimedEntries(c) ==
    { Present(DictSet(GoodTree(c), "time", DT(StartClock + diff))) : diff \in EdgeDiffs }

InitTime ==
    /\ cls \in Classes
    /\ attrs = Attrs(cls)
    /\ config = [i \in Inst |-> "None"]
    /\ cached = [i \in Inst |-> FALSE]
    /\ stored = [i \in Inst |-> EmptyDict]
    /\ own = [i \in Inst |-> EmptyDict]
    /\ data \in TimedEntries(cls)
    /\ budget = HydrateSteps
    /\ modified = "none"
    /\ auto_update \in BOOLEAN
    /\ scope = [depth |-> 0, saved |-> FALSE]
    /\ warnings = [i \in Inst |-> [a \in DOMAIN attrs.dict |-> 0]]
    /\ clock = StartClock
    /\ last = NoCall
    /\ prev = NoCall

\* record.readable_time()
ReadableTime(i) ==
    /\ CanStep
    /\ Commit(StoredBase_readable_time(Cur, cls, i), "readable_time", i, "", NoneV)

NextTime == Bind("r1") \/ ReadableTime("r1")

SpecTime == InitTime /\ [][NextTime]_vars

----------------------------------------------------------------------------
(* Reads, refreshing writes and the daily reset *)

MaxDays == 1

\* Shortly after the 04:00 of the second day
Dawn == (Day + ResetHour * Hour) * TicksPerSec + StartClock

\* Entries stamped long before the boundary, one tick before it, on it and
\* after it; an entry with no time, and one whose time is not a timestamp
ReadEntries(c) ==
    { Absent, Present(GoodTree(c)), Present(Without(GoodTree(c), "time")),
      Present(DictSet(GoodTree(c), "time", IntV(7))) }
    \cup { Present(DictSet(GoodTree(c), "time", DT(get_server_last_update(Dawn).v + d))) :
             d \in {-1, 0, TicksPerSec} }

\* A well-typed value for an attribute; DEFAULT_TIME puts the record back to
\* never written
RefreshValue(default) ==
    CASE default.t = "datetime" -> DEFAULT_TIME
      [] default.t = "int" -> IntV(1)
      [] OTHER -> StrV("Quest_A")

\* The attributes the callers of this scenario read and write
ProbeAttrs == DOMAIN attrs.dict \ {"quest3", "quest4", "quest5", "quest6"}

\* r1 has been bound to the config
InitRead ==
    /\ cls \in Classes
    /\ attrs = Attrs(cls)
    /\ config = [i \in Inst |-> IF i = "r1" THEN "cfg" ELSE "None"]
    /\ cached = [i \in Inst |-> FALSE]
    /\ stored = [i \in Inst |-> EmptyDict]
    /\ own = [i \in Inst |-> EmptyDict]
    /\ data \in ReadEntries(cls)
    /\ budget = MaxSteps
    /\ modified = "none"
    /\ auto_update \in BOOLEAN
    /\ scope = [depth |-> 0, saved |-> FALSE]
    /\ warnings = [i \in Inst |-> [a \in DOMAIN attrs.dict |-> 0]]
    /\ clock = Dawn
    /\ last = NoCall
    /\ prev = NoCall

\* record.show()
Show(i) ==
    /\ CanStep
    /\ Commit(StoredBase_show(Cur, cls, i), "show", i, "", NoneV)

\* record.dashboard()
Dashboard(i) ==
    /\ CanStep
    /\ Commit(StoredBase_dashboard(Cur, cls, i), "dashboard", i, "", NoneV)

\* record.is_expired()
IsExpired(i) ==
    /\ CanStep
    /\ Commit(is_expired(Cur, cls, i), "is_expired", i, "", NoneV)

\* counter.to_counter()
ToCounter(i) ==
    /\ CanStep
    /\ \E k \in 1..Len(Mro(cls)) : Declares(Mro(cls)[k], "to_counter")
    /\ Commit(StoredCounter_to_counter(Cur, cls, i), "to_counter", i, "", NoneV)

\* counter.is_full()
IsFull(i) ==
    /\ CanStep
    /\ \E k \in 1..Len(Mro(cls)) : Declares(Mro(cls)[k], "is_full")
    /\ Commit(StoredCounter_is_full(Cur, cls, i), "is_full", i, "", NoneV)

\* counter.get_remain()
GetRemain(i) ==
    /\ CanStep
    /\ \E k \in 1..Len(Mro(cls)) : Declares(Mro(cls)[k], "get_remain")
    /\ Commit(StoredCounter_get_remain(Cur, cls, i), "get_remain", i, "", NoneV)

\* A day passes
DayPasses ==
    /\ clock < Dawn + MaxDays * Day * TicksPerSec
    /\ clock' = clock + Day * TicksPerSec
    /\ UNCHANGED <<cls, attrs, config, cached, stored, own, data, modified, auto_update,
                   scope, warnings, budget, last, prev>>

NextRead ==
    \/ \E a \in ProbeAttrs \cup {"note"} : Get("r1", a)
    \/ \E a \in ProbeAttrs : Set("r1", a, RefreshValue(attrs.dict[a]))
    \/ Set("r1", "note", StrV("memo"))
    \/ Show("r1")
    \/ Dashboard("r1")
    \/ IsExpired("r1")
    \/ ReadableTime("r1")
    \/ ToCounter("r1")
    \/ IsFull("r1")
    \/ GetRemain("r1")
    \/ LoadQuests("r1")
    \/ DayPasses

SpecRead == InitRead /\ [][NextRead]_vars

----------------------------------------------------------------------------
(* Two records constructed with the same key and bound to the same config *)

TwoSteps == 3

\* The attributes the two callers read and write
SharedAttrs == DOMAIN attrs.dict \ {"time", "quest3", "quest4", "quest5", "quest6"}

InitTwo ==
    /\ cls \in Classes
    /\ attrs = Attrs(cls)
    /\ config = [i \in Inst |-> "cfg"]
    /\ cached = [i \in Inst |-> FALSE]
    /\ stored = [i \in Inst |-> EmptyDict]
    /\ own = [i \in Inst |-> EmptyDict]
    /\ data \in { Absent, Present(GoodTree(cls)) }
    /\ budget = TwoSteps
    /\ modified = "none"
    /\ auto_update \in BOOLEAN
    /\ scope = [depth |-> 0, saved |-> FALSE]
    /\ warnings = [i \in Inst |-> [a \in DOMAIN attrs.dict |-> 0]]
    /\ clock = StartClock
    /\ last = NoCall
    /\ prev = NoCall

NextTwo ==
    \/ \E i \in Inst, a \in SharedAttrs : Get(i, a)
    \/ \E i \in Inst, a \in SharedAttrs : Set(i, a, RefreshValue(attrs.dict[a]))

SpecTwo == InitTwo /\ [][NextTwo]_vars

----------------------------------------------------------------------------
(* Vocabulary of the properties *)

SchemaKeys == DOMAIN attrs.dict

Default(a) == attrs.dict[a]

\* The value pending in modified[key]
ModifiedNow == IF modified = "none" THEN Absent ELSE Present(stored[modified])

\* This step is a call on a record or on the config (not a tick, not a bind)
Called == budget' # budget /\ clock' = clock

FieldOps == {"get", "set"}

BatchOps == {"StoredCounter.set", "StoredDailyActivity.set", "write_quests"}

\* The call recorded in `l` returned without raising
Returned(l) == l.exc = "none"

KeysOK(i) == DOMAIN stored[i] = SchemaKeys

SameTypes(i) == \A a \in SchemaKeys : stored[i][a].t = Default(a).t

InstanceTypes(i) == \A a \in SchemaKeys : IsInstance(stored[i][a], Default(a).t)

\* The call assigns only values that are instances of their attribute's type
WellTypedCall(l) ==
    CASE l.op = "set" /\ l.attr \in SchemaKeys -> IsInstance(l.arg, Default(l.attr).t)
      [] l.op \in {"StoredCounter.set", "StoredDailyActivity.set"} ->
           \A k \in 1..Len(l.arg.v) : IsInstance(l.arg.v[k], "int")
      [] l.op = "write_quests" ->
           \A k \in 1..Len(l.arg.v) : IsInstance(QuestName(l.arg.v[k]), "str")
      [] OTHER -> TRUE

\* The values a batched update was asked to write are all in dict d
BatchWritten(l, d) ==
    CASE l.op = "StoredCounter.set" ->
           d["current"] = l.arg.v[1] /\ d["total"] = l.arg.v[2]
      [] l.op = "StoredDailyActivity.set" ->
           d["current"] = l.arg.v[1] /\ d["total"] = IntV(ActivityTotal)
      [] OTHER ->
           \A k \in 1..QuestSlots :
              d[QuestAttrs[k]] = IF k <= Len(l.arg.v) THEN QuestName(l.arg.v[k])
                                 ELSE StrV("")

\* The first call of the run is a get of a schema attribute that returned
FirstGet ==
    /\ prev = NoCall
    /\ last.op = "get"
    /\ last.attr \in SchemaKeys
    /\ Returned(last)

PinnedTotal(a) == cls = "StoredDailyActivity" /\ a = "total"

\* What a get of attribute b on instance i returns in this state, stated from
\* the tree: the raw value when it is an instance of the default's type
ValueBefore(i, b) ==
    IF PinnedTotal(b) THEN IntV(ActivityTotal)
    ELSE IF cached[i] THEN stored[i][b]
    ELSE IF b \in DOMAIN data.map /\ IsInstance(data.map[b], Default(b).t)
         THEN data.map[b]
         ELSE Default(b)

\* The tree holds no `time` for the key, or a timestamp, or a string
TimeReadable ==
    "time" \in DOMAIN data.map => data.map["time"].t \in {"datetime", "str"}

AllResolve(quests) ==
    \A k \in 1..Len(quests) :
       QuestName(quests[k]).t = "str" /\ QuestName(quests[k]).v \in KnownQuests

Resolved(quests) == [k \in 1..Len(quests) |-> DailyQuest(QuestName(quests[k]).v)]

----------------------------------------------------------------------------
(* Properties *)

\* C1: a get or a set of a schema attribute made before _bind() fails with the
\* assertion and changes neither the tree, nor modified, nor any snapshot, and
\* requests no flush; made after _bind(config) it never fails with the assertion.
C1_Precondition ==
    [][ (Called /\ last'.op \in FieldOps /\ last'.attr \in SchemaKeys) =>
          IF config[last'.inst] = "None"
          THEN /\ last'.exc = "AssertionError"
               /\ data' = data
               /\ modified' = modified
               /\ stored' = stored
               /\ last'.flushed = <<>>
          ELSE last'.exc # "AssertionError" ]_vars

C1_Witness ==
    /\ last.op = "set"
    /\ last.attr \in SchemaKeys
    /\ last.exc = "AssertionError"
    /\ config[last.inst] = "None"

\* C2 (as claimed): whatever the tree holds at the key, a field access on a
\* bound record completes and leaves a hydrated snapshot.
C2_HydrationNeverRaises ==
    [][ (Called /\ last'.op \in FieldOps /\ last'.attr \in SchemaKeys
           /\ config[last'.inst] = "cfg") =>
          (last'.exc = "none" /\ cached'[last'.inst]) ]_vars

\* C3: with auto_update on, a batched update of a bound record requests exactly
\* one flush, and that flush finds in modified[key] what the batch left there:
\* every value of the batch when it completed, never a part of them.
C3_BatchedFlush ==
    [][ (Called /\ last'.op \in BatchOps /\ auto_update
           /\ config[last'.inst] = "cfg") =>
          /\ Len(last'.flushed) = 1
          /\ last'.flushed[1] = ModifiedNow'
          /\ Returned(last') =>
                /\ last'.flushed[1].present
                /\ BatchWritten(last', last'.flushed[1].map) ]_vars

C3_Witness ==
    /\ last.op = "write_quests"
    /\ Returned(last)
    /\ Len(last.arg.v) = 3
    /\ Len(last.flushed) = 1
    /\ auto_update

\* C4 (as claimed): a hydrated snapshot has exactly the schema's keys and every
\* value has the type of its schema default.
C4_KeysAndTypes == \A i \in Inst : cached[i] => KeysOK(i) /\ SameTypes(i)

\* C4 (amended): a hydrated snapshot has exactly the schema's keys; hydration
\* leaves every value an instance of its default's type, and so does every call
\* that assigns only instances of the attributes' types.
C4_KeysAndInstances ==
    [][ \A i \in Inst :
          cached'[i] =>
             /\ KeysOK(i)'
             /\ ((cached[i] => InstanceTypes(i)) /\ (Called => WellTypedCall(last')))
                   => InstanceTypes(i)' ]_vars

C4_Witness ==
    /\ last.op = "set"
    /\ last.attr \in SchemaKeys
    /\ Returned(last)
    /\ WellTypedCall(last)
    /\ InstanceTypes(last.inst)
    /\ \E a \in SchemaKeys : warnings[last.inst][a] > 0

\* C5 (as claimed): a get that follows a set of the same schema attribute with a
\* value of the default's type returns the value set.
C5_RoundTrip ==
    (/\ last.op = "get" /\ prev.op = "set"
     /\ last.inst = prev.inst /\ last.attr = prev.attr
     /\ prev.attr \in SchemaKeys
     /\ prev.arg.t = Default(prev.attr).t
     /\ Returned(prev))
    => (Returned(last) /\ last.ret = prev.arg)

\* C5 (amended): it returns the value set, except for 'total' of a
\* StoredDailyActivity, which reads 500 whatever was set.
C5_RoundTripButTotal ==
    (/\ last.op = "get" /\ prev.op = "set"
     /\ last.inst = prev.inst /\ last.attr = prev.attr
     /\ prev.attr \in SchemaKeys
     /\ prev.arg.t = Default(prev.attr).t
     /\ Returned(prev))
    => /\ Returned(last)
       /\ last.ret = IF PinnedTotal(prev.attr) THEN IntV(ActivityTotal) ELSE prev.arg

C5_Witness ==
    /\ last.op = "get" /\ prev.op = "set"
    /\ last.inst = prev.inst /\ last.attr = prev.attr
    /\ PinnedTotal(prev.attr)
    /\ prev.arg = IntV(1)
    /\ last.ret = IntV(ActivityTotal)

\* C6 (as claimed): after hydration every attribute but 'time' holds the raw
\* value when it is present and of the default's type, and the default
\* otherwise, with one warning when the raw value is of another type.
C6_Hydration ==
    FirstGet =>
       \A a \in SchemaKeys \ {"time"} :
          IF a \in DOMAIN data.map /\ data.map[a].t = Default(a).t
          THEN stored[last.inst][a] = data.map[a]
          ELSE /\ stored[last.inst][a] = Default(a)
               /\ a \in DOMAIN data.map => warnings[last.inst][a] = 1

\* C6 (amended): the raw value is kept when it is an instance of the default's
\* type (a bool passes for an int default); 'total' of a StoredDailyActivity
\* holds 500 whatever the tree holds.
C6_HydrationByInstance ==
    FirstGet =>
       \A a \in SchemaKeys \ {"time"} :
          IF a \in DOMAIN data.map /\ IsInstance(data.map[a], Default(a).t)
          THEN /\ stored[last.inst][a] =
                     IF PinnedTotal(a) THEN IntV(ActivityTotal) ELSE data.map[a]
               /\ warnings[last.inst][a] = 0
          ELSE /\ stored[last.inst][a] =
                     IF PinnedTotal(a) THEN IntV(ActivityTotal) ELSE Default(a)
               /\ warnings[last.inst][a] = IF a \in DOMAIN data.map THEN 1 ELSE 0

C6_Witness ==
    /\ FirstGet
    /\ \E a \in SchemaKeys \ {"time"} :
          /\ a \in DOMAIN data.map
          /\ ~IsInstance(data.map[a], Default(a).t)
          /\ stored[last.inst][a] = Default(a)
          /\ warnings[last.inst][a] = 1

\* C7: a set of a schema attribute that returns leaves modified[key] referring
\* to the record's whole snapshot: exactly the schema's keys, the attribute at
\* the value set, every other attribute but 'time' at the value it had.
C7_FullSnapshot ==
    [][ (Called /\ last'.op = "set" /\ last'.attr \in SchemaKeys /\ Returned(last')) =>
          /\ modified' = last'.inst
          /\ DOMAIN ModifiedNow'.map = SchemaKeys
          /\ ModifiedNow'.map[last'.attr] = last'.arg
          /\ \A b \in SchemaKeys \ {last'.attr, "time"} :
                ModifiedNow'.map[b] = ValueBefore(last'.inst, b) ]_vars

C7_Witness ==
    /\ prev = NoCall
    /\ last.op = "set"
    /\ last.attr \in SchemaKeys
    /\ Returned(last)
    /\ modified = last.inst
    /\ \E b \in SchemaKeys \ {last.attr, "time"} : stored[last.inst][b] # Default(b)

\* C8: outside a multi_set() scope, a set of a schema attribute on a bound
\* record (the persisted `time` being a timestamp or a string) returns and calls
\* update() exactly once when auto_update is on, after the snapshot with the new
\* value is in modified[key], and not at all when it is off.
C8_FlushPerSet ==
    [][ (Called /\ last'.op = "set" /\ last'.attr \in SchemaKeys
           /\ config[last'.inst] = "cfg" /\ TimeReadable /\ scope.depth = 0) =>
          /\ Returned(last')
          /\ IF auto_update
             THEN /\ last'.flushed = <<Present(stored'[last'.inst])>>
                  /\ last'.flushed[1].map[last'.attr] = last'.arg
             ELSE last'.flushed = <<>> ]_vars

C8_Witness ==
    /\ last.op = "set"
    /\ last.attr \in SchemaKeys
    /\ Returned(last)
    /\ Len(last.flushed) = 1
    /\ scope.depth = 0
    /\ auto_update

\* C9: on a bound StoredDailyActivity a get of 'total' returns 500, whatever
\* the tree holds for 'total' and whatever was set before (the persisted `time`
\* being a timestamp or a string).
C9_TotalPinned ==
    (cls = "StoredDailyActivity" /\ last.op = "get" /\ last.attr = "total"
       /\ last.exc # "AssertionError" /\ TimeReadable)
    => (Returned(last) /\ last.ret = IntV(ActivityTotal))

C9_Witness ==
    /\ cls = "StoredDailyActivity"
    /\ last.op = "get" /\ last.attr = "total"
    /\ last.ret = IntV(ActivityTotal)
    /\ data.present /\ "total" \in DOMAIN data.map
    /\ data.map["total"] # IntV(ActivityTotal)

\* C10: load_quests() right after a write_quests(L) that returned, L of at most
\* six names that all resolve, returns the quests of L in order; and
\* write_quests([]) leaves the six slots empty.
C10_WriteThenLoad ==
    /\ (last.op = "write_quests" /\ Returned(last) /\ last.arg.v = <<>>) =>
          /\ cached[last.inst]
          /\ \A k \in 1..QuestSlots : stored[last.inst][QuestAttrs[k]] = StrV("")
    /\ (/\ last.op = "load_quests" /\ prev.op = "write_quests"
        /\ last.inst = prev.inst
        /\ Returned(prev)
        /\ Len(prev.arg.v) <= QuestSlots
        /\ AllResolve(prev.arg.v)) =>
          /\ Returned(last)
          /\ last.ret.t = "list"
          /\ last.ret.v = Resolved(prev.arg.v)

C10_Witness ==
    /\ last.op = "load_quests" /\ prev.op = "write_quests"
    /\ Returned(prev) /\ Returned(last)
    /\ Len(prev.arg.v) = 2
    /\ Len(last.ret.v) = 2

\* The threshold table of readable_time, for an elapsed time in whole seconds
Table(elapsed) ==
    CASE elapsed < -1 -> Pair("", "TimeError")
      [] -1 <= elapsed /\ elapsed < 60 -> Pair("", "JustNow")
      [] 60 <= elapsed /\ elapsed < 3600 -> Pair(ToString(elapsed \div 60), "MinutesAgo")
      [] 3600 <= elapsed /\ elapsed < 86400 ->
           Pair(ToString(elapsed \div 86400), "HoursAgo")
      [] 86400 <= elapsed /\ elapsed < 129600 ->
           Pair(ToString(elapsed \div 129600), "DaysAgo")
      [] OTHER -> Pair("", "LongTimeAgo")

\* Stored time minus now, in ticks (no operation of SpecTime moves the clock)
ElapsedTicks == stored[last.inst]["time"].v - clock

C18_TimeErrorIffFuture ==
    (last.op = "readable_time" /\ Returned(last))
    => (last.ret.v[2] = StrV("TimeError") <=> ElapsedTicks > Skew * TicksPerSec)

\* The records with the expiry policy
ExpiryRecords == {"StoredDailyActivity", "StoredDaily", "StoredDungeonDouble"}

\* C12: is_expired() of a record with the expiry policy returns true exactly
\* when the snapshot's time is strictly earlier than the most recent 04:00 (a
\* time on the boundary is not expired, the sentinel time is), and it returns
\* when the persisted `time` is a timestamp or a string; is_expired() of a
\* StoredInt or a StoredCounter returns false in every state.
C12_Expired ==
    last.op = "is_expired" =>
       IF cls \in ExpiryRecords
       THEN /\ TimeReadable => Returned(last)
            /\ Returned(last) =>
                  /\ last.ret = BoolV(stored[last.inst]["time"].v
                                         < get_server_last_update(last.at).v)
                  /\ stored[last.inst]["time"] = get_server_last_update(last.at)
                        => last.ret = BoolV(FALSE)
                  /\ stored[last.inst]["time"] = DEFAULT_TIME => last.ret = BoolV(TRUE)
       ELSE Returned(last) /\ last.ret = BoolV(FALSE)

C12_Witness ==
    /\ last.op = "is_expired"
    /\ cls \in ExpiryRecords
    /\ Returned(last)
    /\ stored[last.inst]["time"] = get_server_last_update(last.at)
    /\ last.ret = BoolV(FALSE)

\* C13 (as claimed): every set of a schema attribute leaves snapshot['time']
\* at the instant of the call truncated to whole seconds.
C13_SetStampsTime ==
    (last.op = "set" /\ last.attr \in SchemaKeys /\ Returned(last))
    => stored[last.inst]["time"] = DT((last.at \div TicksPerSec) * TicksPerSec)

\* C13 (amended): every set of a schema attribute other than 'time' does; a
\* set of 'time' leaves snapshot['time'] at the value assigned.
C13_SetStampsTimeUnlessTime ==
    (last.op = "set" /\ last.attr \in SchemaKeys /\ Returned(last))
    => stored[last.inst]["time"] =
          IF last.attr = "time" THEN last.arg
          ELSE DT((last.at \div TicksPerSec) * TicksPerSec)

C13_Witness ==
    /\ last.op = "set"
    /\ last.attr \in SchemaKeys \ {"time"}
    /\ Returned(last)
    /\ last.at % TicksPerSec # 0
    /\ stored[last.inst]["time"].v < last.at
    /\ stored[last.inst]["time"].v + TicksPerSec > last.at

\* The call is one of the reads, or a set of a non-schema name
IsRead(l) ==
    \/ l.op \in {"get", "show", "dashboard", "is_expired", "readable_time", "load_quests",
                 "to_counter", "is_full", "get_remain"}
    \/ l.op = "set" /\ l.attr \notin SchemaKeys

\* What a get of each attribute but 'time' returns
Observed(i) == [b \in SchemaKeys \ {"time"} |-> ValueBefore(i, b)]

\* C19 (as claimed): a read, or a set of a non-schema name, leaves the values
\* of the schema attributes, the snapshot's time, the content of modified[key]
\* and the tree unchanged and calls no update().
C19_ReadsChangeNothing ==
    [][ \A i \in Inst : (Called /\ IsRead(last') /\ last'.inst = i) =>
          /\ cached'[i] => Observed(i)' = Observed(i)
          /\ cached[i] => stored'[i]["time"] = stored[i]["time"]
          /\ modified' = modified
          /\ ModifiedNow' = ModifiedNow
          /\ data' = data
          /\ last'.flushed = <<>> ]_vars

\* C19 (amended): the same, except that on a StoredDailyActivity a read of
\* the snapshot writes total = 500 into it, and so into the content of
\* modified[key] when that snapshot is registered there.
C19_ReadsChangeNothingButTotal ==
    [][ \A i \in Inst : (Called /\ IsRead(last') /\ last'.inst = i) =>
          /\ cached'[i] => Observed(i)' = Observed(i)
          /\ cached[i] => stored'[i]["time"] = stored[i]["time"]
          /\ modified' = modified
          /\ \/ ModifiedNow' = ModifiedNow
             \/ /\ cls = "StoredDailyActivity"
                /\ modified # "none"
                /\ ModifiedNow'.map = DictSet(ModifiedNow.map, "total", IntV(ActivityTotal))
          /\ data' = data
          /\ last'.flushed = <<>> ]_vars

C19_Witness ==
    /\ cls = "StoredDailyActivity"
    /\ prev.op = "set" /\ prev.attr = "total" /\ prev.arg = IntV(1) /\ Returned(prev)
    /\ last.op = "show"
    /\ modified = last.inst
    /\ stored[last.inst]["total"] = IntV(ActivityTotal)

\* An is_expired() that directly follows a set of one of `names`
AskedAfterSet(names) ==
    /\ cls \in ExpiryRecords
    /\ last.op = "is_expired"
    /\ prev.op = "set"
    /\ prev.inst = last.inst
    /\ prev.attr \in names
    /\ Returned(prev)

\* C20 (as claimed): is_expired() after a set of any schema attribute returns
\* false until the 04:00 boundary has advanced past the instant of the set.
C20_SetRefreshes ==
    AskedAfterSet(SchemaKeys) =>
       /\ Returned(last)
       /\ last.ret = BoolV(get_server_last_update(last.at).v > prev.at)

\* C20 (amended): after a set of any schema attribute other than 'time'.
C20_SetRefreshesUnlessTime ==
    AskedAfterSet(SchemaKeys \ {"time"}) =>
       /\ Returned(last)
       /\ last.ret = BoolV(get_server_last_update(last.at).v > prev.at)

C20_Witness ==
    /\ AskedAfterSet(SchemaKeys \ {"time"})
    /\ last.at > prev.at
    /\ last.ret = BoolV(TRUE)

\* The name write_quests stores for an item of its list
NameOf(q) == IF q.t = "DailyQuest" THEN StrV(q.v) ELSE q

\* C16: write_quests(L) on a bound record, for L of any length, returns and
\* leaves slot k at the name of the k-th item of L when L has one and at ''
\* otherwise; the items past the sixth are not written and raise nothing.
C16_SlotsWritten ==
    (last.op = "write_quests" /\ last.exc # "AttributeError" /\ TimeReadable)
    => /\ Returned(last)
       /\ cached[last.inst]
       /\ \A k \in 1..6 :
             stored[last.inst][QuestAttrs[k]] =
                IF k <= Len(last.arg.v) THEN NameOf(last.arg.v[k]) ELSE StrV("")

C16_Witness ==
    /\ last.op = "write_quests"
    /\ Returned(last)
    /\ Len(last.arg.v) > 6
    /\ stored[last.inst]["quest6"] = NameOf(last.arg.v[6])
    /\ last.arg.v[1].t = "DailyQuest"

\* The quests of the slots of dict d that are not empty and resolve, in order
QuestsOf(d) ==
    LET names == [k \in 1..6 |-> d[QuestAttrs[k]]]
        kept == SelectSeq(names, LAMBDA n : n.t = "str" /\ n.v \in KnownQuests)
    IN [k \in 1..Len(kept) |-> DailyQuest(kept[k].v)]

\* C17: load_quests() on a bound record returns the quests of the slots that
\* are not empty and resolve, in slot order, raising nothing for a name that
\* does not resolve, and changes neither the slots nor modified[key].
C17_LoadQuests ==
    [][ \A i \in Inst :
          (Called /\ last'.op = "load_quests" /\ last'.inst = i /\ config[i] = "cfg") =>
             /\ TimeReadable => Returned(last')
             /\ last'.exc \notin {"ScriptError", "AssertionError"}
             /\ Returned(last') =>
                   /\ last'.ret.t = "list"
                   /\ last'.ret.v = QuestsOf(stored'[i])
                   /\ \A k \in 1..6 :
                         stored'[i][QuestAttrs[k]] = ValueBefore(i, QuestAttrs[k])
             /\ modified' = modified
             /\ ModifiedNow' = ModifiedNow
             /\ last'.flushed = <<>> ]_vars

C17_Witness ==
    /\ last.op = "load_quests"
    /\ Returned(last)
    /\ Len(last.ret.v) = 2
    /\ \E k \in 1..6 : stored[last.inst][QuestAttrs[k]] = StrV("Unknown")
    /\ \E k \in 1..6 : stored[last.inst][QuestAttrs[k]] = StrV("")

\* C14: with two records on the same key, a set by one of them that returns
\* leaves modified[key] referring to that record's whole snapshot: the value
\* set, and for every other attribute but 'time' the value that record itself
\* held, whatever the other record has written; the other record's snapshot
\* is not touched.
C14_LastWriterWins ==
    [][ \A i \in Inst :
          (Called /\ last'.op = "set" /\ last'.inst = i /\ last'.attr \in SchemaKeys
             /\ Returned(last')) =>
             /\ modified' = i
             /\ ModifiedNow'.map[last'.attr] = last'.arg
             /\ \A b \in SchemaKeys \ {last'.attr, "time"} :
                   ModifiedNow'.map[b] = ValueBefore(i, b)
             /\ \A j \in Inst \ {i} : stored'[j] = stored[j] /\ cached'[j] = cached[j] ]_vars

C14_Witness ==
    /\ last.op = "set" /\ prev.op = "set"
    /\ Returned(last) /\ Returned(prev)
    /\ last.inst # prev.inst
    /\ last.attr # prev.attr
    /\ modified = last.inst
    /\ stored[prev.inst][prev.attr] = prev.arg
    /\ ModifiedNow.map[prev.attr] # prev.arg

\* C15: once a record has hydrated it does not hydrate again: its snapshot is
\* kept, no call of another record changes it, a get returns what the snapshot
\* held (the value hydrated or the value the record set itself), whatever the
\* tree holds by then, and leaves the values read unchanged.
C15_HydratesOnce ==
    [][ \A i \in Inst :
          cached[i] =>
             /\ cached'[i]
             /\ warnings'[i] = warnings[i]
             /\ (Called /\ last'.inst # i) => stored'[i] = stored[i]
             /\ (Called /\ last'.inst = i /\ last'.op = "get"
                   /\ last'.attr \in SchemaKeys) =>
                   /\ Returned(last')
                   /\ last'.ret = ValueBefore(i, last'.attr)
                   /\ Observed(i)' = Observed(i)
                   /\ stored'[i]["time"] = stored[i]["time"] ]_vars

C15_Witness ==
    /\ last.op = "get" /\ prev.op = "set"
    /\ Returned(last) /\ Returned(prev)
    /\ last.inst # prev.inst
    /\ last.attr = prev.attr
    /\ prev.flushed # <<>>
    /\ data.present /\ data.map[last.attr] = prev.arg
    /\ last.ret # prev.arg

====
